---- MODULE Spec2Model ----
(***************************************************************************)
(* A model of electronicparsers/ocean/parser.py: the OCEAN parser.  One    *)
(* run is: the mainfile keys are computed from the directory listing, one  *)
(* child archive is made per key, parse loads the main JSON, builds one    *)
(* child run per key and finally aggregates the PhotonPolarization         *)
(* workflow.                                                               *)
(*                                                                         *)
(* File names and the strings the code slices, splits, formats and looks   *)
(* up are sequences of one-character strings.  An optional quantity is a   *)
(* sequence of length 0 (unset, None) or 1 (set).  A Python exception      *)
(* leaving parse is the value of err and pc = "raised".                    *)
(***************************************************************************)
EXTENDS Integers, Sequences, FiniteSets, TLC

\* ---------------------------------------------------------------- bounds
\* the largest number of entries of the directory
MaxFiles == 3
\* the largest dimension field of a lanczos file
MaxDim == 1
\* the largest number of records of a lanczos file
MaxRecords == 4

\* ------------------------------------------------------- strings of Python
\* the characters the model uses, in code point order
Capitals ==
  << "A", "B", "C", "D", "E", "F", "G", "H", "I", "J", "K", "L", "M",
     "N", "O", "P", "Q", "R", "S", "T", "U", "V", "W", "X", "Y", "Z" >>

Smalls ==
  << "a", "b", "c", "d", "e", "f", "g", "h", "i", "j", "k", "l", "m",
     "n", "o", "p", "q", "r", "s", "t", "u", "v", "w", "x", "y", "z" >>

Alphabet ==
  << "\t", "\n", "\f", "\r", " ", "+", ",", "-",
     "0", "1", "2", "3", "4", "5", "6", "7", "8", "9" >>
  \o Capitals \o << "[", "]", "_" >> \o Smalls

\* the characters of Alphabet that str.strip() and int() take for white space
White == { "\t", "\n", "\f", "\r", " " }

Ord(c) == CHOOSE k \in 1..Len(Alphabet) : Alphabet[k] = c

Digits == << "0", "1", "2", "3", "4", "5", "6", "7", "8", "9" >>

IsDigit(c) == \E k \in 1..10 : Digits[k] = c

DigitVal(c) == (CHOOSE k \in 1..10 : Digits[k] = c) - 1

\* s.startswith(p)
StartsWith(s, p) == Len(s) >= Len(p) /\ SubSeq(s, 1, Len(p)) = p

\* s.endswith(p)
EndsWith(s, p) == Len(s) >= Len(p) /\ SubSeq(s, Len(s) - Len(p) + 1, Len(s)) = p

\* s[-k:], for a string or a list
LastOf(s, k) == IF Len(s) <= k THEN s ELSE SubSeq(s, Len(s) - k + 1, Len(s))

\* s < t, the order list.sort() puts two strings in
RECURSIVE StrLess(_, _)
StrLess(s, t) ==
  IF t = << >> THEN FALSE
  ELSE IF s = << >> THEN TRUE
  ELSE IF s[1] # t[1] THEN Ord(s[1]) < Ord(t[1])
  ELSE StrLess(Tail(s), Tail(t))

RECURSIVE InsertSorted(_, _)
InsertSorted(sorted, x) ==
  IF sorted = << >> THEN << x >>
  ELSE IF StrLess(x, sorted[1]) THEN << x >> \o sorted
  ELSE << sorted[1] >> \o InsertSorted(Tail(sorted), x)

\* list.sort() of a list of strings
RECURSIVE Sort(_)
Sort(l) == IF l = << >> THEN << >> ELSE InsertSorted(Sort(SubSeq(l, 1, Len(l) - 1)), l[Len(l)])

\* x.split(' ')
RECURSIVE SplitAcc(_, _)
SplitAcc(s, cur) ==
  IF s = << >> THEN << cur >>
  ELSE IF s[1] = " " THEN << cur >> \o SplitAcc(Tail(s), << >>)
  ELSE SplitAcc(Tail(s), Append(cur, s[1]))

Split(s) == SplitAcc(s, << >>)

\* s.strip(): s without the white space at its two ends
RECURSIVE Strip(_)
Strip(s) ==
  IF s = << >> THEN s
  ELSE IF s[1] \in White THEN Strip(Tail(s))
  ELSE IF s[Len(s)] \in White THEN Strip(SubSeq(s, 1, Len(s) - 1))
  ELSE s

\* what int(x) reads after the white space at the two ends and the sign
Unsigned(s) ==
  LET t == Strip(s)
  IN  IF t # << >> /\ t[1] \in { "+", "-" } THEN Tail(t) ELSE t

\* int(x) accepts x: around it white space, then a sign or none, then digits,
\* with single underscores between two digits
IntOk(s) ==
  LET u == Unsigned(s)
  IN  /\ u # << >>
      /\ \A k \in 1..Len(u) :
           \/ IsDigit(u[k])
           \/ /\ u[k] = "_"
              /\ 1 < k /\ k < Len(u)
              /\ IsDigit(u[k - 1]) /\ IsDigit(u[k + 1])

\* the value of a run of digits and underscores
RECURSIVE ValueOf(_)
ValueOf(u) ==
  IF u = << >> THEN 0
  ELSE IF u[Len(u)] = "_" THEN ValueOf(SubSeq(u, 1, Len(u) - 1))
  ELSE 10 * ValueOf(SubSeq(u, 1, Len(u) - 1)) + DigitVal(u[Len(u)])

\* int(x), for an x that int accepts
IntOf(s) ==
  LET t == Strip(s)
  IN  IF t # << >> /\ t[1] = "-" THEN 0 - ValueOf(Unsigned(s)) ELSE ValueOf(Unsigned(s))

\* str(n) of an integer n
RECURSIVE StrOfInt(_)
StrOfInt(n) ==
  IF n < 0 THEN << "-" >> \o StrOfInt(0 - n)
  ELSE IF n < 10 THEN << Digits[n + 1] >>
  ELSE StrOfInt(n \div 10) \o << Digits[(n % 10) + 1] >>

RECURSIVE JoinInts(_)
JoinInts(l) ==
  IF l = << >> THEN << >>
  ELSE IF Len(l) = 1 THEN StrOfInt(l[1])
  ELSE StrOfInt(l[1]) \o << ",", " " >> \o JoinInts(Tail(l))

\* str(l) of a list of integers: '[2, 1]'
StrOfList(l) == << "[" >> \o JoinInts(l) \o << "]" >>

\* ------------------------------------------------------ the directory
ABSSPCT == << "a", "b", "s", "s", "p", "c", "t" >>
PHOTON == << "p", "h", "o", "t", "o", "n" >>
ABSLANC == << "a", "b", "s", "l", "a", "n", "c" >>

\* the file names a directory snapshot is drawn from
FileNames ==
  { ABSSPCT \o << "_", "0", "1" >>, ABSSPCT \o << "_", "1", "1" >>,
    PHOTON \o << "1" >>, PHOTON \o << "1", "1" >>,
    ABSLANC \o << "_", "0", "1" >> }

IsListing(l) == \A a, b \in 1..Len(l) : a # b => l[a] # l[b]

\* os.listdir gives the entries in an arbitrary order: every listing without
\* repetition of at most MaxFiles names
Listings == { l \in UNION { [1..k -> FileNames] : k \in 0..MaxFiles } : IsListing(l) }

\* pc                where the run is: "match" (before get_mainfile_keys),
\*                   "parse" (before json.load), "children" (in the loop of
\*                   parse or before its last statement), "done" (parse
\*                   returned at its end), "returned" (parse returned after
\*                   the failed load), "raised" (an exception left parse)
\* listing           os.listdir of the directory of the mainfile
\* child_keys        the keys of _child_archives, in the order of the dictionary
\* child_archives    _child_archives: the child archive of every key
\* data              self.data
\* fs                what the photon and lanczos files read so far hold
\* photon_archive    the list photon_archive of parse
\* workflow_archive  the archive given to parse
\* attached          for every key whose turn of the loop was taken, the photon
\*                   file and the lanczos file set as the parsers' mainfile
\* log               the messages given to the logger, each with its level
\* err               the exception that left parse
VARIABLES pc, listing, child_keys, child_archives, data, fs, photon_archive,
          workflow_archive, attached, log, err

vars == << pc, listing, child_keys, child_archives, data, fs, photon_archive,
           workflow_archive, attached, log, err >>

\* ------------------------------------------------- the main JSON document
\* calc.edges lists: strings of blank-separated integers
EdgeK == << "2", "2", " ", "1", " ", "0" >>
EdgeL23 == << "2", "2", " ", "2", " ", "1" >>
EdgeM == << "2", "2", " ", "3", " ", "2" >>
EdgeTrailingBlank == << "2", " ", "1", " " >>

EdgeLists == { << >>, << EdgeK >>, << EdgeL23, EdgeK >>, << EdgeM >>, << EdgeTrailingBlank >> }

\* The documents json.load can return.  The sub-dictionaries version, dft, bse,
\* bse.core, screen (with core_offset, final, grid, model) and calc are always
\* there; what varies is the structure (a non-empty dictionary, an empty one, or
\* no such key), the core solver and the edge list; the core strength is 1.
Configs ==
  [ structure : { "present", "empty", "missing" },
    solver : { "haydock", "gmres", "lanczos" },
    strength : { 1 },
    edges : EdgeLists,
    mode : { << "x", "a", "s" >> } ]

\* data before json.load, and after it failed
NoData == [ structure |-> "missing", solver |-> "", strength |-> 0, edges |-> << >>, mode |-> << >> ]

\* ---------------------------------------------------- the auxiliary files
Operators == { "dipole", "quad", "NRIXS" }

Vectors == << << 1, 0, 0 >>, << 0, 1, 0 >> >>

\* What PhotonParser finds in a photon file: the operator, one or two
\* cartesian vectors and the energy; or nothing at all (every get is None).
PhotonContents ==
  { [ operator |-> << op >>, vectors |-> SubSeq(Vectors, 1, k), energy |-> << 7 >> ] :
      op \in Operators, k \in 1..2 }
    \cup { [ operator |-> << >>, vectors |-> << >>, energy |-> << >> ] }

\* A lanczos file of r records whose first record holds the dimension field n
\* and the scaling factor; record k > 0 holds two numbers that tell it apart.
LanczosFile(n, r) == [ k \in 1..r |-> IF k = 1 THEN << n, 5 >> ELSE << 10 * (k - 1) + 1, 10 * (k - 1) + 2 >> ]

LanczosContents == { LanczosFile(n, r) : n \in 0..MaxDim, r \in 1..MaxRecords }

\* the table DataTextParser reads from a spectra file: energy, reserved, intensity
SpectraContents == { << << 1, 0, 3 >>, << 2, 0, 4 >> >> }

\* ------------------------------------------------------------- sections
\* a reference to the idx-th section of a kind of the run of an archive
H(owner, kind, idx) == [ owner |-> owner, kind |-> kind, idx |-> idx ]

\* the archive of the mainfile, which becomes the workflow entry
WF == << "archive" >>

EmptyRun == [ program |-> << >>, system |-> << >>, method |-> << >>, calculation |-> << >> ]

EmptyArchive == [ run |-> << >>, workflow2 |-> << >> ]

EmptyPhoton == [ multipole_type |-> << >>, polarization |-> << >>, momentum_transfer |-> << >>, energy |-> << >> ]

EmptyMethod ==
  [ photon |-> << >>, starting_method_ref |-> << >>, k_mesh |-> << >>, bse |-> << >>,
    x_ocean_bse_parameters |-> << >>, x_ocean_screen_parameters |-> << >>,
    x_ocean_edges |-> << >> ]

EmptyCoreHole == [ mode |-> << >>, solver |-> << >>, edge |-> << >>, broadening |-> << >> ]

\* the run with its last section of a kind replaced
SetLast(run, kind, sec) == [ run EXCEPT ![kind] = [ @ EXCEPT ![Len(@)] = sec ] ]

\* dict.get(key) of a dictionary kept as a set of << key, value >> pairs
Lookup(map, key) == IF \E p \in map : p[1] = key THEN << (CHOOSE p \in map : p[1] = key)[2] >> ELSE << >>

\* __init__
type_bse_map == { << "haydock", "lanczos-haydock" >>, << "gmres", "gmres" >> }

mode_bse == << "emission", "absorption" >>

core_level_map ==
  { << << "[", "1", ",", " ", "0", "]" >>, "K" >>,
    << << "[", "2", ",", " ", "1", "]" >>, "L23" >> }

\* an exception of a class, raised at a line of parser.py
Exc(type, line) == [ type |-> type, line |-> line ]

NoErr == Exc("none", 0)

\* a call of self.logger.error or self.logger.warning
Message(level, text) == [ level |-> level, text |-> text ]

\* ----------------------------------------------------------- parse_system
parse_system(run) == [ run EXCEPT !.system = Append(@, [ atoms |-> << "structure" >> ]) ]

\* ---------------------------------------------- parse_photon_polarization
\* the photon files of a key: the listing's 'photon*' names ending with path[-1:]
photon_file(path, lst) ==
  SelectSeq(lst, LAMBDA f : StartsWith(f, PHOTON) /\ EndsWith(f, LastOf(path, 1)))

\* whether the operator asks for a momentum transfer vector
NeedsMomentum(multipole_type) ==
  multipole_type # << >> /\ multipole_type[1] \in { "quad", "NRIXS", "qRaman" }

\* The Method and its Photon section are created first; then the photon file
\* is looked for, and read when there is one.  content is what the file holds.
parse_photon_polarization(run, path, lst, content) ==
  LET run1 == [ run EXCEPT !.method = Append(@, [ EmptyMethod EXCEPT !.photon = << EmptyPhoton >> ]) ]
      files == photon_file(path, lst)
      Set(p) == SetLast(run1, "method", [ EmptyMethod EXCEPT !.photon = << p >> ])
      p1 == [ EmptyPhoton EXCEPT !.multipole_type = content.operator ]
      p2 == [ p1 EXCEPT !.polarization = << content.vectors[1] >> ]
      p3 == IF NeedsMomentum(p2.multipole_type)
            THEN [ p2 EXCEPT !.momentum_transfer = << content.vectors[2] >> ]
            ELSE p2
      p4 == [ p3 EXCEPT !.energy = content.energy ]
  IN  IF files = << >> THEN [ run |-> run1, err |-> NoErr, file |-> << >> ]
      ELSE IF content.vectors = << >>
        THEN [ run |-> Set(p1), err |-> Exc("TypeError", 110), file |-> << files[1] >> ]
      ELSE IF NeedsMomentum(p2.multipole_type) /\ Len(content.vectors) < 2
        THEN [ run |-> Set(p2), err |-> Exc("IndexError", 112), file |-> << files[1] >> ]
      ELSE IF content.energy = << >>
        THEN [ run |-> Set(p3), err |-> Exc("TypeError", 113), file |-> << files[1] >> ]
      ELSE [ run |-> Set(p4), err |-> NoErr, file |-> << files[1] >> ]

\* ----------------------------------------------------------- parse_method
\* the type of a BSE section that was just created: parse_method never assigns
\* it, so it still is unset when the solver blocks are chosen by it
NewBSE ==
  [ type |-> << >>, n_empty_states |-> << >>, screening_type |-> << >>, core_hole |-> << >> ]

\* the solver-specific blocks of x_ocean_bse_parameters, chosen by sec_bse.type
SolverBlocks(bse_type) ==
  [ haydock |-> IF bse_type = << "lanczos-haydock" >> THEN << "haydock" >> ELSE << >>,
    gmres |-> IF bse_type # << "lanczos-haydock" >> /\ bse_type = << "gmres" >>
              THEN << "gmres" >> ELSE << >> ]

\* whether every token of every edge string is accepted by int()
EdgesOk(strs) == \A k \in 1..Len(strs) : \A j \in 1..Len(Split(strs[k])) : IntOk(Split(strs[k])[j])

\* edges: each string split at the blanks, each token an integer
EdgesOf(strs) ==
  [ k \in 1..Len(strs) |-> [ j \in 1..Len(Split(strs[k])) |-> IntOf(Split(strs[k])[j]) ] ]

\* the label looked up for the last edge of the list instead of the first
CoreLevelOfLastEdge(edges) == Lookup(core_level_map, StrOfList(LastOf(edges[Len(edges)], 2)))

\* self._core_level_map[str(edges[0][-2:])], when there is such a key
CoreLevel(edges) == Lookup(core_level_map, StrOfList(LastOf(edges[1], 2)))

\* self._type_bse_map[solver], when there is such a key
SolverName(solver) == Lookup(type_bse_map, solver)

\* owner is the archive whose last run gets the new Method section
parse_method(run, owner, d) ==
  LET ref == IF Append(run.method, EmptyMethod)[1].photon # << >>
             THEN << H(owner, "method", 1) >> ELSE << >>
      With(m) == [ run EXCEPT !.method = Append(@, m) ]
      bse1 == [ NewBSE EXCEPT !.n_empty_states = << "bse.nbands" >>,
                              !.screening_type = << "screen.mode" >> ]
      m1 == [ EmptyMethod EXCEPT !.starting_method_ref = ref,
                                 !.k_mesh = << "bse.kmesh" >>, !.bse = << bse1 >> ]
      m2 == [ m1 EXCEPT !.x_ocean_bse_parameters = << SolverBlocks(bse1.type) >>,
                        !.x_ocean_screen_parameters = << "screen" >> ]
      edges == EdgesOf(d.edges)
      m3 == [ m2 EXCEPT !.x_ocean_edges = << edges >> ]
      ch1 == [ EmptyCoreHole EXCEPT !.mode = << mode_bse[d.strength + 1] >> ]
      ch2 == [ ch1 EXCEPT !.solver = SolverName(d.solver) ]
      ch3 == [ ch2 EXCEPT !.edge = CoreLevel(edges) ]
      ch4 == [ ch3 EXCEPT !.broadening = << "bse.core.broaden" >> ]
      WithCoreHole(ch) == With([ m3 EXCEPT !.bse = << [ bse1 EXCEPT !.core_hole = << ch >> ] >> ])
  IN  IF d.structure = "missing" THEN [ run |-> With(m1), err |-> Exc("KeyError", 130) ]
      ELSE IF ~EdgesOk(d.edges) THEN [ run |-> With(m2), err |-> Exc("ValueError", 165) ]
      ELSE IF SolverName(d.solver) = << >>
        THEN [ run |-> WithCoreHole(ch1), err |-> Exc("KeyError", 171) ]
      ELSE IF edges = << >> THEN [ run |-> WithCoreHole(ch2), err |-> Exc("IndexError", 172) ]
      ELSE IF CoreLevel(edges) = << >>
        THEN [ run |-> WithCoreHole(ch2), err |-> Exc("KeyError", 172) ]
      ELSE [ run |-> WithCoreHole(ch4), err |-> NoErr ]

\* -------------------------------------------------------------- parse_scc
\* the lanczos files of a key: the listing's 'abslanc*' names ending with path[-2:]
lanc_file(path, lst) ==
  SelectSeq(lst, LAMBDA f : StartsWith(f, ABSLANC) /\ EndsWith(f, LastOf(path, 2)))

\* c.upper() of one character: a small letter gives its capital
UpperChar(c) ==
  IF \E k \in 1..Len(Smalls) : Smalls[k] = c
  THEN Capitals[CHOOSE k \in 1..Len(Smalls) : Smalls[k] = c]
  ELSE c

\* s.upper()
Upper(s) == [ k \in 1..Len(s) |-> UpperChar(s[k]) ]

\* data_spct[:, j]
Column(table, j) == [ k \in 1..Len(table) |-> table[k][j + 1] ]

Spectrum(d, table) ==
  [ type |-> Upper(d.mode), n_energies |-> Len(table),
    excitation_energies |-> Column(table, 0), intensities |-> Column(table, 2) ]

\* the dimension field taken as the dimension, without the 1 the code adds
NDimensionOfField(rec) == rec[1][1]

\* n_dimension = int(data_lancz[0][0]) + 1; record j of the file is rec[j + 1]
NDimension(rec) == rec[1][1] + 1

\* matrix: the row [data_lancz[1], 0.0], which is there whatever n_dimension
\* is, then one row for every n of range(2, n_dimension + 1)
Tridiagonal(rec) ==
  LET rows == IF NDimension(rec) < 1 THEN 1 ELSE NDimension(rec)
  IN  [ k \in 1..rows |-> IF k = 1 THEN << rec[2], 0 >> ELSE << rec[k + 1][1], rec[k + 1][2] >> ]

\* l[start:]: a negative start counts from the end of the list
SliceFrom(l, start) ==
  LET from == IF start >= 0 THEN start
              ELSE IF Len(l) + start < 0 THEN 0 ELSE Len(l) + start
  IN  SubSeq(l, from + 1, Len(l))

\* data_lancz[n_dimension + 1:]
Eigenvalues(rec) == SliceFrom(rec, NDimension(rec) + 1)

\* The x_ocean_lanczos_results section of the list rec of the records of a
\* lanczos file, with the IndexError of a list that holds fewer records than
\* are read: none at all (data_lancz[0]), one (data_lancz[1]), or fewer than
\* the loop reads.
lanczos_results(rec) ==
  LET l0 == [ x_ocean_n_tridiagonal_matrix |-> << >>, x_ocean_scaling_factor |-> << >>,
              x_ocean_tridiagonal_matrix |-> << >>, x_ocean_eigenvalues |-> << >> ]
      l1 == [ l0 EXCEPT !.x_ocean_n_tridiagonal_matrix = << NDimension(rec) >>,
                        !.x_ocean_scaling_factor = << rec[1][2] >> ]
  IN  IF rec = << >> THEN [ sec |-> l0, err |-> Exc("IndexError", 197) ]
      ELSE IF Len(rec) < 2 THEN [ sec |-> l1, err |-> Exc("IndexError", 200) ]
      ELSE IF \E n \in 2..NDimension(rec) : n >= Len(rec)
        THEN [ sec |-> l1, err |-> Exc("IndexError", 202) ]
      ELSE [ sec |-> [ l1 EXCEPT !.x_ocean_tridiagonal_matrix = << Tridiagonal(rec) >>,
                                 !.x_ocean_eigenvalues = << Eigenvalues(rec) >> ],
             err |-> NoErr ]

\* table is what the spectra file holds, rec what the lanczos file holds
parse_scc(run, path, d, lst, table, rec) ==
  LET scc == [ system_ref |-> H(path, "system", Len(run.system)),
               method_ref |-> H(path, "method", Len(run.method)),
               spectra |-> << Spectrum(d, table) >>,
               x_ocean_lanczos_results |-> << >> ]
      files == lanc_file(path, lst)
      res == lanczos_results(rec)
      With(c) == [ run EXCEPT !.calculation = Append(@, c) ]
  IN  IF files = << >> THEN [ run |-> With(scc), err |-> NoErr, file |-> << >> ]
      ELSE [ run |-> With([ scc EXCEPT !.x_ocean_lanczos_results = << res.sec >> ]),
             err |-> res.err, file |-> << files[1] >> ]

\* -------------------------------------------------- parse_spectra_entries
\* The child archive of a key after parse_spectra_entries, the exception that
\* left it, what it logged and the auxiliary files it attached.
parse_spectra_entries(path, d, lst, content, table, rec) ==
  LET run0 == [ EmptyRun EXCEPT !.program = << [ name |-> "OCEAN" ] >> ]
      run1 == parse_system(run0)
      r2 == parse_photon_polarization(run1, path, lst, content)
      r3 == parse_method(r2.run, path, d)
      r4 == parse_scc(r3.run, path, d, lst, table, rec)
      Out(run, wf, e, msgs, pf, lf) ==
        [ archive |-> [ run |-> << run >>, workflow2 |-> wf ], err |-> e, log |-> msgs,
          photon |-> pf, lanczos |-> lf ]
  IN  IF d.structure # "present"
        THEN Out(run0, << >>, NoErr,
                 << Message("error", "Error finding the structure in the main output file.") >>,
                 << >>, << >>)
      ELSE IF r2.err # NoErr THEN Out(r2.run, << >>, r2.err, << >>, r2.file, << >>)
      ELSE IF r3.err # NoErr THEN Out(r3.run, << >>, r3.err, << >>, r2.file, << >>)
      ELSE IF r4.err # NoErr THEN Out(r4.run, << >>, r4.err, << >>, r2.file, r4.file)
      ELSE Out(r4.run, << "SinglePoint" >>, NoErr, << >>, r2.file, r4.file)

\* -------------------------------------------------- parse_photon_workflow
Link(name, section) == [ name |-> name, section |-> section ]

\* photon_archive.index(archive) + 1
IndexOf(keys, key) == CHOOSE k \in 1..Len(keys) : keys[k] = key /\ \A j \in 1..(k - 1) : keys[j] # key

\* a task whose photon method is taken from the first archive of the list
TaskOfFirstMethod(key, archive, keys, input_structure) ==
  [ task |-> H(key, "workflow2", 1),
    inputs |-> << Link(<< "Input structure" >>, input_structure),
                  Link(<< "Input photon parameters" >>, H(keys[1], "method", 1)) >>,
    outputs |-> << Link(<< "Output polarization", IndexOf(keys, key) >>,
                        H(key, "calculation", Len(archive.run[Len(archive.run)].calculation))) >> ]

\* the task of one child archive; input_structure is the workflow run's system
TaskOf(key, archive, keys, input_structure) ==
  LET run == archive.run[Len(archive.run)]
      scc == H(key, "calculation", Len(run.calculation))
  IN  [ task |-> H(key, "workflow2", 1),
        inputs |-> << Link(<< "Input structure" >>, input_structure),
                      Link(<< "Input photon parameters" >>, H(key, "method", 1)) >>,
        outputs |-> << Link(<< "Output polarization", IndexOf(keys, key) >>, scc) >> ]

\* the keys of the archives that have a workflow2, in the order of the list
WithWorkflow(keys, archives) == SelectSeq(keys, LAMBDA k : archives[k].workflow2 # << >>)

Tasks(keys, archives, input_structure) ==
  LET ks == WithWorkflow(keys, archives)
  IN  [ j \in 1..Len(ks) |-> TaskOf(ks[j], archives[ks[j]], keys, input_structure) ]

\* the sections of a kind a run owns, as references
Refs(owner, run, kind) == [ j \in 1..Len(run[kind]) |-> H(owner, kind, j) ]

\* The workflow archive after parse_photon_workflow over the archives of keys,
\* the exception that left it and what it logged.
parse_photon_workflow(keys, archives, d) ==
  LET first == archives[keys[1]].run[Len(archives[keys[1]].run)]
      run0 == IF keys # << >>
              THEN IF first.program # << >> /\ first.system # << >>
                   THEN [ EmptyRun EXCEPT !.program = Refs(keys[1], first, "program"),
                                          !.system = Refs(keys[1], first, "system") ]
                   ELSE EmptyRun
              ELSE [ EmptyRun EXCEPT !.program = << H(WF, "program", 1) >>,
                                     !.system = << H(WF, "system", 1) >> ]
      msgs == IF keys # << >> THEN << >>
              ELSE << Message("warning",
                     "Cannot resolve program and system from the first photon archive. Generating empty sections.") >>
      r1 == parse_method(run0, WF, d)
      input_structure == r1.run.system[Len(r1.run.system)]
      input_method == H(WF, "method", Len(r1.run.method))
      tasks == Tasks(keys, archives, input_structure)
      workflow ==
        [ n_polarizations |-> Len(keys),
          method |-> input_method,
          inputs |-> << Link(<< "Input structure" >>, input_structure),
                        Link(<< "Input BSE methodology" >>, input_method) >>,
          tasks |-> tasks,
          outputs |-> [ j \in 1..Len(tasks) |-> tasks[j].outputs[1] ],
          spectrum_polarization |->
            [ j \in 1..Len(tasks) |-> H(tasks[j].task.owner, "spectra", 1) ] ]
  IN  IF r1.err # NoErr
        THEN [ archive |-> [ run |-> << r1.run >>, workflow2 |-> << >> ], err |-> r1.err, log |-> msgs ]
      ELSE IF r1.run.system = << >>
        THEN [ archive |-> [ run |-> << r1.run >>, workflow2 |-> << >> ],
               err |-> Exc("IndexError", 252), log |-> msgs ]
      ELSE [ archive |-> [ run |-> << r1.run >>, workflow2 |-> << workflow >> ],
             err |-> NoErr, log |-> msgs ]

\* ------------------------------------------------------ get_mainfile_keys
\* the sorted 'absspct*' names of the listing, or True when there is none
get_mainfile_keys(lst) ==
  LET absspct_files == Sort(SelectSeq(lst, LAMBDA f : StartsWith(f, ABSSPCT)))
  IN  IF Len(absspct_files) > 0 THEN [ tag |-> "keys", keys |-> absspct_files ]
      ELSE [ tag |-> "True", keys |-> << >> ]

\* ------------------------------------------------------------ the machine
\* Before the run: a directory snapshot, no child archive, nothing loaded.
Init ==
  /\ pc = "match"
  /\ listing \in Listings
  /\ child_keys = << >>
  /\ child_archives = << >>
  /\ data = NoData
  /\ fs = [ photon |-> << >>, lanczos |-> << >> ]
  /\ photon_archive = << >>
  /\ workflow_archive = EmptyArchive
  /\ attached = << >>
  /\ log = << >>
  /\ err = NoErr

\* The mainfile is matched: get_mainfile_keys gives the keys, and parse is
\* handed one empty child archive per key, in the order of the keys.
GetMainfileKeys ==
  /\ pc = "match"
  /\ child_keys' = get_mainfile_keys(listing).keys
  /\ child_archives' = [ k \in { child_keys'[j] : j \in 1..Len(child_keys') } |-> EmptyArchive ]
  /\ pc' = "parse"
  /\ UNCHANGED << listing, data, fs, photon_archive, workflow_archive, attached, log, err >>

\* parse, to the end of the loading of the main JSON: json.load fails, or
\* gives a document.
ParseLoadFails ==
  /\ pc = "parse"
  /\ log' = Append(log, Message("error", "Error opening json output file."))
  /\ pc' = "returned"
  /\ UNCHANGED << listing, child_keys, child_archives, data, fs, photon_archive,
                  workflow_archive, attached, err >>

ParseLoad ==
  /\ pc = "parse"
  /\ \E d \in Configs : data' = d
  /\ photon_archive' = << >>
  /\ pc' = "children"
  /\ UNCHANGED << listing, child_keys, child_archives, fs, workflow_archive, attached, log, err >>

\* what a file holds: what an earlier read found in it, else any content
Holds(read, files, contents) ==
  IF files = << >> THEN { CHOOSE c \in contents : TRUE }
  ELSE IF files[1] \in DOMAIN read THEN { read[files[1]] }
  ELSE contents

\* The files a turn of the loop can come to read: none when the structure is
\* not there (the turn returns at line 220), and past line 172 none when
\* parse_method raises.
Reached(d, line, files) ==
  IF d.structure # "present" THEN << >>
  ELSE IF line > 172 /\ parse_method(EmptyRun, WF, d).err # NoErr THEN << >>
  ELSE files

\* the files read so far, with one more
Reading(read, file, content) ==
  IF file = << >> THEN read
  ELSE [ f \in DOMAIN read \cup { file[1] } |-> IF f = file[1] THEN content ELSE read[f] ]

\* parse, one turn of the loop over the child archives
ParseChild ==
  /\ pc = "children"
  /\ Len(photon_archive) < Len(child_keys)
  /\ LET key == child_keys[Len(photon_archive) + 1]
     IN  \E content \in Holds(fs.photon, Reached(data, 105, photon_file(key, listing)), PhotonContents),
            rec \in Holds(fs.lanczos, Reached(data, 191, lanc_file(key, listing)), LanczosContents),
            table \in Holds(<< >>, Reached(data, 182, << key >>), SpectraContents) :
           LET res == parse_spectra_entries(key, data, listing, content, table, rec)
           IN  /\ child_archives' = [ child_archives EXCEPT ![key] = res.archive ]
               /\ fs' = [ photon |-> Reading(fs.photon, res.photon, content),
                          lanczos |-> Reading(fs.lanczos, res.lanczos, rec) ]
               /\ attached' = [ k \in DOMAIN attached \cup { key } |->
                                  IF k = key THEN [ photon |-> res.photon, lanczos |-> res.lanczos ]
                                  ELSE attached[k] ]
               /\ log' = log \o res.log
               /\ err' = res.err
               /\ IF res.err = NoErr
                    THEN /\ photon_archive' = Append(photon_archive, key)
                         /\ pc' = "children"
                    ELSE /\ photon_archive' = photon_archive
                         /\ pc' = "raised"
  /\ UNCHANGED << listing, child_keys, data, workflow_archive >>

\* parse, the last statement: parse_photon_workflow
ParseWorkflow ==
  /\ pc = "children"
  /\ Len(photon_archive) = Len(child_keys)
  /\ LET res == parse_photon_workflow(photon_archive, child_archives, data)
     IN  /\ workflow_archive' = res.archive
         /\ log' = log \o res.log
         /\ err' = res.err
         /\ pc' = IF res.err = NoErr THEN "done" ELSE "raised"
  /\ UNCHANGED << listing, child_keys, child_archives, data, fs, photon_archive, attached >>

Next == GetMainfileKeys \/ ParseLoadFails \/ ParseLoad \/ ParseChild \/ ParseWorkflow

Spec == Init /\ [][Next]_vars

\* ------------------------------------------------------------ properties
\* parse is over
Ended == pc \in { "done", "raised" }

\* a configuration parse_method maps without an error, with its structure
ValidConfig(d) == d.structure = "present" /\ parse_method(EmptyRun, WF, d).err = NoErr

\* the names of the spectra files of the directory
SpectraFiles == { listing[k] : k \in { j \in 1..Len(listing) : StartsWith(listing[j], ABSSPCT) } }

\* the last run of a child archive
RunOf(key) == child_archives[key].run[Len(child_archives[key].run)]

\* a child run with all its sections and its workflow marker
FullyBuilt(key) ==
  /\ Len(child_archives[key].run) = 1
  /\ RunOf(key).program # << >> /\ RunOf(key).system # << >>
  /\ RunOf(key).method # << >> /\ RunOf(key).calculation # << >>
  /\ child_archives[key].workflow2 # << >>

\* the workflow entry, once parse_photon_workflow has set it
Workflow == workflow_archive.workflow2[1]

\* the Method sections of all the runs
AllMethods ==
  UNION { { RunOf(k).method[j] : j \in 1..Len(RunOf(k).method) } :
            k \in { q \in DOMAIN child_archives : child_archives[q].run # << >> } }
    \cup ( IF workflow_archive.run = << >> THEN { }
           ELSE { workflow_archive.run[1].method[j] :
                    j \in 1..Len(workflow_archive.run[1].method) } )

\* the Method sections parse_method has filled to its last line
MappedMethods ==
  { m \in AllMethods :
      /\ m.bse # << >>
      /\ m.bse[1].core_hole # << >>
      /\ m.bse[1].core_hole[1].broadening # << >> }

\* C1: for a valid configuration and any directory snapshot, a run of parse
\* ends with a workflow entry of exactly one task per spectra file, the i-th
\* task being the child run of the i-th spectra file name in lexical order, and
\* the number of tasks is the number of built child runs.
C1_OneTaskPerSpectraFile ==
  (Ended /\ ValidConfig(data)) =>
    /\ workflow_archive.workflow2 # << >>
    /\ Len(Workflow.tasks) = Cardinality(SpectraFiles)
    /\ \A i \in 1..Len(Workflow.tasks) : Workflow.tasks[i].task.owner \in SpectraFiles
    /\ \A i, j \in 1..Len(Workflow.tasks) :
         i < j => StrLess(Workflow.tasks[i].task.owner, Workflow.tasks[j].task.owner)
    /\ Len(Workflow.tasks) = Cardinality({ k \in DOMAIN child_archives : FullyBuilt(k) })

\* the configuration is one parse_method maps without an error
MethodMaps(d) == parse_method(EmptyRun, WF, d).err = NoErr

\* C2: whenever parse_photon_workflow runs, the workflow run ends up with a
\* program and a system: those of the first child run when there is a child
\* run, empty placeholders when there is none; with no child run (and a
\* configuration that parse_method maps) a warning is logged, the workflow has
\* no task and no exception is raised.
C2_ProgramAndSystem ==
  workflow_archive.run # << >> =>
    LET run == workflow_archive.run[1]
    IN  /\ run.program # << >> /\ run.system # << >>
        /\ photon_archive # << >> =>
             /\ run.program = << H(photon_archive[1], "program", 1) >>
             /\ run.system = << H(photon_archive[1], "system", 1) >>
        /\ photon_archive = << >> =>
             /\ run.program = << H(WF, "program", 1) >>
             /\ run.system = << H(WF, "system", 1) >>
             /\ log # << >>
             /\ MethodMaps(data) =>
                  /\ err = NoErr
                  /\ workflow_archive.workflow2 # << >>
                  /\ Workflow.tasks = << >>

\* C3: a main JSON that does not load ends parse with an error logged and no
\* section created; once it is loaded and there are child runs to build,
\* whatever goes wrong in one of them, every child run is built and
\* parse_photon_workflow runs to completion.
C3_OnlyLoadFailureIsFatal ==
  /\ pc = "returned" =>
       /\ log = << Message("error", "Error opening json output file.") >>
       /\ workflow_archive = EmptyArchive
       /\ \A k \in DOMAIN child_archives : child_archives[k] = EmptyArchive
  /\ (Ended /\ child_keys # << >>) =>
       /\ \A k \in DOMAIN child_archives : child_archives[k].run # << >>
       /\ workflow_archive.workflow2 # << >>

\* the records of the lanczos file attached to a key
LanczosOf(key) == fs.lanczos[attached[key].lanczos[1]]

\* the x_ocean_lanczos_results sections filled without an error, by key
LanczosParsed ==
  { k \in DOMAIN attached :
      /\ attached[k].lanczos # << >>
      /\ RunOf(k).calculation # << >>
      /\ RunOf(k).calculation[1].x_ocean_lanczos_results # << >>
      /\ RunOf(k).calculation[1].x_ocean_lanczos_results[1].x_ocean_tridiagonal_matrix # << >> }

LanczosSection(key) == RunOf(key).calculation[1].x_ocean_lanczos_results[1]

\* C4 as the specification states it: with the dimension field n, n records
\* are consumed as tridiagonal rows, the recorded dimension is n, every record
\* after those n rows is an eigenvalue row, and the second column of the first
\* row is 0.
C4_DimensionRows ==
  \A k \in LanczosParsed :
    LET n == LanczosOf(k)[1][1]
        sec == LanczosSection(k)
    IN  n >= 0 =>
          /\ sec.x_ocean_n_tridiagonal_matrix = << n >>
          /\ Len(sec.x_ocean_tridiagonal_matrix[1]) = n
          /\ sec.x_ocean_eigenvalues = << SubSeq(LanczosOf(k), n + 2, Len(LanczosOf(k))) >>
          /\ n >= 1 => sec.x_ocean_tridiagonal_matrix[1][1][2] = 0

\* C4, amended: with the dimension field n >= 0, of a lanczos file that holds
\* at least n + 2 records the n + 1 records after the first are the tridiagonal
\* rows (the first of them whole in the first column of row one, whose second
\* column is 0), the recorded dimension is n + 1, and every record after those
\* n + 1 is an eigenvalue row.
C4_DimensionPlusOneRows ==
  \A k \in { q \in DOMAIN attached : attached[q].lanczos # << >> } :
    LET rec == LanczosOf(k)
        n == rec[1][1]
    IN  (n >= 0 /\ Len(rec) >= n + 2) =>
          /\ k \in LanczosParsed
          /\ LET sec == LanczosSection(k)
                 matrix == sec.x_ocean_tridiagonal_matrix[1]
                 eigenvalues == sec.x_ocean_eigenvalues[1]
             IN  /\ sec.x_ocean_n_tridiagonal_matrix = << n + 1 >>
                 /\ Len(matrix) = n + 1
                 /\ matrix[1] = << rec[2], 0 >>
                 /\ \A j \in 2..(n + 1) : matrix[j] = rec[j + 1]
                 /\ Len(eigenvalues) = Len(rec) - (n + 2)
                 /\ \A j \in 1..Len(eigenvalues) : eigenvalues[j] = rec[n + 2 + j]

\* a lanczos file of dimension field 1 parsed into two rows and an eigenvalue
C4_Witness ==
  \E k \in LanczosParsed :
    /\ LanczosOf(k)[1][1] = 1
    /\ Len(LanczosSection(k).x_ocean_tridiagonal_matrix[1]) = 2
    /\ Len(LanczosSection(k).x_ocean_eigenvalues[1]) >= 1

\* C5: the method section of a configuration whose core solver is 'haydock'
\* has a haydock block and no gmres block, that of solver 'gmres' a gmres block
\* and no haydock block, never both; another solver is a mapping error.
C5_SolverBlocks ==
  /\ \A m \in MappedMethods :
       LET blocks == m.x_ocean_bse_parameters[1]
       IN  /\ data.solver = "haydock" => blocks.haydock # << >> /\ blocks.gmres = << >>
           /\ data.solver = "gmres" => blocks.gmres # << >> /\ blocks.haydock = << >>
           /\ ~(blocks.haydock # << >> /\ blocks.gmres # << >>)
  /\ (Ended /\ data.solver \notin { "haydock", "gmres" }) => err.type # "none"

\* the content of the photon file attached to a key
PhotonOf(key) == fs.photon[attached[key].photon[1]]

\* the Photon section of the child run of a key
PhotonSection(key) == RunOf(key).method[1].photon[1]

\* C6: with operator 'dipole' no momentum transfer is read or required; with
\* 'quad' or 'NRIXS' and two vectors the second is the momentum transfer; with
\* 'quad' or 'NRIXS' and one vector the child run is still built, with the
\* momentum transfer unset, and no error is raised.
C6_MomentumTransfer ==
  \A k \in { q \in DOMAIN attached : attached[q].photon # << >> } :
    LET c == PhotonOf(k)
    IN  /\ c.operator = << "dipole" >> =>
             /\ PhotonSection(k).momentum_transfer = << >>
             /\ err.line \notin { 110, 112, 113 }
        /\ (c.operator \in { << "quad" >>, << "NRIXS" >> } /\ Len(c.vectors) = 2) =>
             PhotonSection(k).momentum_transfer = << c.vectors[2] >>
        /\ (c.operator \in { << "quad" >>, << "NRIXS" >> } /\ Len(c.vectors) = 1) =>
             /\ PhotonSection(k).momentum_transfer = << >>
             /\ err.line \notin { 110, 112, 113 }
             /\ Len(RunOf(k).method) = 2

\* the first edge's last two quantum numbers, as the Method section holds them
FirstPair(m) == LastOf(m.x_ocean_edges[1][1], 2)

\* the Method sections in which parse_method came to look the edge label up
EdgeLooked == { m \in AllMethods : m.bse # << >> /\ m.bse[1].core_hole # << >>
                                   /\ m.bse[1].core_hole[1].solver # << >> }

\* C7: the core-hole edge label is that of the last two quantum numbers of the
\* first edge of the edge list: 'K' for [1, 0] and 'L23' for [2, 1]; another
\* pair raises the mapping error (the KeyError of line 172) and gives no label;
\* an empty edge list is rejected (the IndexError of line 172) and gives no
\* label either.
C7_EdgeLabel ==
  \A m \in EdgeLooked :
    LET edges == m.x_ocean_edges[1]
        label == m.bse[1].core_hole[1].edge
    IN  /\ (edges # << >> /\ FirstPair(m) = << 1, 0 >>) => label = << "K" >>
        /\ (edges # << >> /\ FirstPair(m) = << 2, 1 >>) => label = << "L23" >>
        /\ (edges # << >> /\ FirstPair(m) \notin { << 1, 0 >>, << 2, 1 >> }) =>
             label = << >> /\ err = Exc("KeyError", 172) /\ pc = "raised"
        /\ edges = << >> =>
             label = << >> /\ err = Exc("IndexError", 172) /\ pc = "raised"

\* a list of two edges whose first is [.., 2, 1] and second [.., 1, 0] gave 'L23'
C7_Witness ==
  \E m \in EdgeLooked :
    /\ Len(m.x_ocean_edges[1]) = 2
    /\ FirstPair(m) = << 2, 1 >>
    /\ LastOf(m.x_ocean_edges[1][2], 2) = << 1, 0 >>
    /\ m.bse[1].core_hole[1].edge = << "L23" >>

\* C8: for a valid configuration, a key whose photon file and lanczos file are
\* absent still yields one fully built child run; with no photon file no method
\* section of the child carries a photon descriptor; with no lanczos file the
\* calculation carries its spectrum and no lanczos results.
C8_ChildWithoutAuxiliaryFiles ==
  \A k \in DOMAIN attached :
    ValidConfig(data) =>
      /\ (attached[k].photon = << >> /\ attached[k].lanczos = << >>) => FullyBuilt(k)
      /\ attached[k].photon = << >> =>
           \A j \in 1..Len(RunOf(k).method) : RunOf(k).method[j].photon = << >>
      /\ (attached[k].lanczos = << >> /\ FullyBuilt(k)) =>
           /\ RunOf(k).calculation[1].spectra # << >>
           /\ RunOf(k).calculation[1].x_ocean_lanczos_results = << >>

\* the parts of C9 that do not depend on which structure a task refers to: the
\* task of the i-th child has that child's calculation as its output, the
\* spectra are one per child in the same order, and the workflow outputs are
\* the task outputs in task order
TasksFollowChildren ==
  /\ Len(Workflow.tasks) = Len(photon_archive)
  /\ \A i \in 1..Len(Workflow.tasks) :
       LET key == photon_archive[i]
           task == Workflow.tasks[i]
       IN  /\ task.task = H(key, "workflow2", 1)
           /\ Len(task.inputs) = 2
           /\ Len(task.outputs) = 1
           /\ task.outputs[1].section = H(key, "calculation", Len(RunOf(key).calculation))
           /\ Workflow.spectrum_polarization[i] = H(key, "spectra", 1)
           /\ Workflow.outputs[i] = task.outputs[1]
  /\ Len(Workflow.spectrum_polarization) = Len(photon_archive)
  /\ Len(Workflow.outputs) = Len(Workflow.tasks)

\* C9 as the specification states it: the inputs of the task of a child are
\* that child's own structure section and that child's own method section.
C9_OwnStructureAndMethod ==
  workflow_archive.workflow2 # << >> =>
    /\ TasksFollowChildren
    /\ \A i \in 1..Len(Workflow.tasks) :
         /\ Workflow.tasks[i].inputs[1].section.owner = photon_archive[i]
         /\ Workflow.tasks[i].inputs[1].section.kind = "system"
         /\ Workflow.tasks[i].inputs[2].section.owner = photon_archive[i]
         /\ Workflow.tasks[i].inputs[2].section.kind = "method"

\* C9, amended: the structure input of every task is the workflow run's last
\* system section, which is the system section of the first child run; the
\* method input is the first method section (the one
\* parse_photon_polarization creates) of the task's own child; the output is
\* that child's calculation;
\* the spectra are one per child in the same order and the workflow outputs are
\* the task outputs in task order.
C9_SharedStructureOwnMethod ==
  workflow_archive.workflow2 # << >> =>
    /\ TasksFollowChildren
    /\ \A i \in 1..Len(Workflow.tasks) :
         /\ Workflow.tasks[i].inputs[1].section = H(photon_archive[1], "system", 1)
         /\ Workflow.tasks[i].inputs[1].section =
              workflow_archive.run[1].system[Len(workflow_archive.run[1].system)]
         /\ Workflow.tasks[i].inputs[2].section = H(photon_archive[i], "method", 1)

\* a workflow entry over two child runs
C9_Witness ==
  /\ pc = "done"
  /\ Len(photon_archive) = 2
  /\ Len(Workflow.tasks) = 2
  /\ Workflow.tasks[2].inputs[1].section.owner # photon_archive[2]

\* the names of a listing
Names(l) == { l[j] : j \in 1..Len(l) }

\* C10: the photon file and the lanczos file attached to a key have names that
\* end with the key's two-character polarization tag, and are the same in
\* whatever order the directory lists its entries.
C10_OwnPolarizationFiles ==
  \A k \in DOMAIN attached :
    /\ attached[k].photon # << >> => EndsWith(attached[k].photon[1], LastOf(k, 2))
    /\ attached[k].lanczos # << >> => EndsWith(attached[k].lanczos[1], LastOf(k, 2))
    /\ \A l \in { q \in Listings : Names(q) = Names(listing) } :
         /\ attached[k].photon # << >> => photon_file(k, l)[1] = attached[k].photon[1]
         /\ attached[k].lanczos # << >> => lanc_file(k, l)[1] = attached[k].lanczos[1]
====
